---- MODULE Spec2Model ----
(***************************************************************************)
(* Model of package validator (valid.go): reflective validation of a       *)
(* protobuf dynamic.Message against the FieldValidator rule attached to    *)
(* each field descriptor, and the process-wide regexp cache.               *)
(***************************************************************************)
EXTENDS Integers, Sequences, FiniteSets, TLC

VARIABLES
    msg,        \* the *dynamic.Message handed to ValidMsg
    cache,      \* r (regCache), the embedded sync.Map: its mutex mu and its
                \* entries m, pattern string -> *regexp.Regexp
    pc,         \* position of the ValidMsg call: "idle", "loop", "done"
    idx,        \* index in GetKnownFields() of the field the loop of Valid is at
    err,        \* the error ValidMsg returns (NoErr is nil)
    evaluated,  \* indices of the fields whose value the loop of Valid has checked
    recovered,  \* TRUE when the deferred recover() of ValidMsg caught a panic
    prev,       \* the results of the completed ValidMsg calls on msg, oldest first
    tpc,        \* goroutine -> position inside regCache.Get / regCache.reset
    targ,       \* goroutine -> the expr its Get was called with
    tret,       \* goroutine -> what its last Get returned
    crashed,    \* fatal runtime error of the process ("" when none)
    compiles,   \* pattern -> number of regexp.Compile calls made by Get
    hist        \* the Get and reset calls a single caller has made, oldest first

vars == <<msg, cache, pc, idx, err, evaluated, recovered, prev,
          tpc, targ, tret, crashed, compiles, hist>>

valVars == <<msg, pc, idx, err, evaluated, recovered, prev>>
thrVars == <<tpc, targ, tret, crashed, compiles, hist>>

----------------------------------------------------------------------------
(* 64-bit integers.  TLC's integers are 32 bits wide, so an integer n of   *)
(* the program is kept as four base-2^16 digits <<d1,d2,d3,d4>> with       *)
(* n = d1*2^48 + d2*2^32 + d3*2^16 + d4, 0 <= d2,d3,d4 < 2^16; d1 carries   *)
(* the sign (-2^15 <= d1 < 2^15 for int64, 0 <= d1 < 2^16 for uint64).      *)

B16 == 2^16

\* the digits of a small integer n (|n| < 2^31)
BigOf(n) ==
    LET q1 == n \div B16
        q2 == q1 \div B16
    IN <<q2 \div B16, q2 % B16, q1 % B16, n % B16>>

BigLt(a, b) ==
    \/ a[1] < b[1]
    \/ a[1] = b[1] /\ a[2] < b[2]
    \/ a[1] = b[1] /\ a[2] = b[2] /\ a[3] < b[3]
    \/ a[1] = b[1] /\ a[2] = b[2] /\ a[3] = b[3] /\ a[4] < b[4]

BigLe(a, b) == a = b \/ BigLt(a, b)

MinInt32  == <<-1, B16 - 1, 2^15, 0>>
MaxInt32  == <<0, 0, 2^15 - 1, B16 - 1>>
MaxUint32 == <<0, 0, B16 - 1, B16 - 1>>
MinInt64  == <<-(2^15), 0, 0, 0>>
MaxInt64  == <<2^15 - 1, B16 - 1, B16 - 1, B16 - 1>>
Pow63     == <<2^15, 0, 0, 0>>
MaxUint64 == <<B16 - 1, B16 - 1, B16 - 1, B16 - 1>>

InRange(b, lo, hi) == BigLe(lo, b) /\ BigLe(b, hi)

\* int64(x) of an int32 or uint32 x: every value of the narrower type is an
\* int64, the number is kept
Int64Of32(b) == b

\* int64(x) of a uint64 x: the same 64 bits read as two's complement, i.e.
\* x - 2^64 when x >= 2^63
Int64OfUint64(b) == <<((b[1] + 2^15) % B16) - 2^15, b[2], b[3], b[4]>>

----------------------------------------------------------------------------
(* float64.  Finite values are kept as hundredths (27 is 0.27); NaN and    *)
(* the infinities behave as in IEEE 754.                                   *)

Fin(n)  == [k |-> "fin", n |-> n]
NaN     == [k |-> "nan", n |-> 0]
PosInf  == [k |-> "inf", n |-> 1]
NegInf  == [k |-> "inf", n |-> -1]

FNeg(a) == IF a.k = "nan" THEN a ELSE [a EXCEPT !.n = -a.n]

FAdd(a, b) ==
    IF a.k = "nan" \/ b.k = "nan" THEN NaN
    ELSE IF a.k = "inf" /\ b.k = "inf" THEN (IF a.n = b.n THEN a ELSE NaN)
    ELSE IF a.k = "inf" THEN a
    ELSE IF b.k = "inf" THEN b
    ELSE Fin(a.n + b.n)

FSub(a, b) == FAdd(a, FNeg(b))

\* a > b on float64: false whenever an operand is NaN
FGt(a, b) ==
    /\ a.k # "nan" /\ b.k # "nan"
    /\ \/ a.k = "fin" /\ b.k = "fin" /\ a.n > b.n
       \/ a.k = "inf" /\ a.n = 1 /\ ~(b.k = "inf" /\ b.n = 1)
       \/ b.k = "inf" /\ b.n = -1 /\ ~(a.k = "inf" /\ a.n = -1)

FEq(a, b) == a.k # "nan" /\ b.k # "nan" /\ a = b
FLt(a, b) == FGt(b, a)
FGe(a, b) == FGt(a, b) \/ FEq(a, b)
FLe(a, b) == FGe(b, a)

----------------------------------------------------------------------------
(* Strings are sequences of one-character strings; a pattern is a string.  *)
(* regexp.Compile and Regexp.MatchString for the patterns built from      *)
(* literals, ".", a postfix "*", "^", "$" and an (unclosed) "(".           *)

RECURSIVE Parse(_, _)
Parse(p, i) ==
    IF i > Len(p) THEN <<>>
    ELSE IF i < Len(p) /\ p[i + 1] = "*"
         THEN <<[c |-> p[i], star |-> TRUE]>> \o Parse(p, i + 2)
         ELSE <<[c |-> p[i], star |-> FALSE]>> \o Parse(p, i + 1)

\* regexp.Compile reports: missing closing ")", missing argument to
\* repetition operator, invalid nested repetition operator
CompileFails(p) ==
    \E i \in 1..Len(p) :
        \/ p[i] = "("
        \/ p[i] = "*" /\ (i = 1 \/ p[i - 1] = "*")

\* the *regexp.Regexp of a pattern that compiles
Compile(p) == [expr |-> p, prog |-> Parse(p, 1)]

\* the positions at which a match of prog[k..] that starts at offset i of s
\* can end
RECURSIVE Ends(_, _, _, _)
Ends(prog, k, s, i) ==
    IF k > Len(prog) THEN {i}
    ELSE LET a == prog[k]
             one == /\ i < Len(s)
                    /\ a.c \notin {"^", "$"}
                    /\ (a.c = "." \/ a.c = s[i + 1])
         IN IF a.star
            THEN Ends(prog, k + 1, s, i)
                 \cup (IF one THEN Ends(prog, k, s, i + 1) ELSE {})
            ELSE IF a.c = "^"
                 THEN (IF i = 0 THEN Ends(prog, k + 1, s, i) ELSE {})
            ELSE IF a.c = "$"
                 THEN (IF i = Len(s) THEN Ends(prog, k + 1, s, i) ELSE {})
            ELSE IF one THEN Ends(prog, k + 1, s, i + 1) ELSE {}

\* a match that must span the whole of s
MatchWhole(exp, s) == Len(s) \in Ends(exp.prog, 1, s, 0)

\* Regexp.MatchString: reports whether s contains any match of the pattern
MatchString(exp, s) == \E i \in 0..Len(s) : Ends(exp.prog, 1, s, i) # {}

----------------------------------------------------------------------------
(* FieldValidator (validator.proto): every constraint is optional; <<>> is *)
(* an unset constraint and <<v>> one set to v.  nil marks the nil rule     *)
(* pointer getRule returns for a field without the extension.              *)

Has(o) == o # <<>>
Val(o) == o[1]

EmptyRule ==
    [nil |-> FALSE, Regex |-> <<>>, IntGt |-> <<>>, IntLt |-> <<>>,
     FloatGt |-> <<>>, FloatLt |-> <<>>, FloatEpsilon |-> <<>>,
     FloatGte |-> <<>>, FloatLte |-> <<>>, StringNotEmpty |-> <<>>,
     RepeatedCountMin |-> <<>>, RepeatedCountMax |-> <<>>,
     LengthGt |-> <<>>, LengthLt |-> <<>>, LengthEq |-> <<>>,
     IsInEnum |-> <<>>]

NilRule == [EmptyRule EXCEPT !.nil = TRUE]

(* A runtime value (interface{}) is its dynamic type t and its value v.    *)
V(t, v) == [t |-> t, v |-> v]
NilValue == V("nil", 0)

(* A desc.FieldDescriptor: name, declared type, label ("single",           *)
(* "repeated", "map"), whether it is an extension, the state of its options *)
(* ("nil": no options, "err": GetExtension fails, "badtype": the extension  *)
(* is no *FieldValidator, "ok": rule is attached), the enum numbers, and,   *)
(* for a map, the key and value descriptors of the entry type.              *)
FD(name, type, label, opt, rule) ==
    [name |-> name, type |-> type, label |-> label, ext |-> FALSE,
     opt |-> opt, rule |-> rule, enum |-> {}, key |-> <<>>, val |-> <<>>]

(* A dynamic.Message: nil, or the known fields in the order                *)
(* GetKnownFields lists them, each with its descriptor fd, whether          *)
(* TryGetField fails on it, and the value TryGetField returns.              *)
NilMsg == [nil |-> TRUE, fields |-> <<>>]
Msg(fields) == [nil |-> FALSE, fields |-> fields]
F(fd, value) == [fd |-> fd, readErr |-> FALSE, value |-> value]

----------------------------------------------------------------------------
(* ValidError and the outcome of a check.                                  *)

NoErr ==
    [field |-> [name |-> "", type |-> ""], validKey |-> "",
     validValue |-> NilValue, fieldValue |-> NilValue]

ValidFail(field, validKey, validValue, fieldValue) ==
    [field |-> [name |-> field.name, type |-> field.type],
     validKey |-> validKey, validValue |-> validValue,
     fieldValue |-> fieldValue]

\* how a call ends: it returns nil, returns an error, or panics; c is the
\* regexp cache it leaves behind
Ok(c)      == [k |-> "nil", e |-> NoErr, c |-> c]
Fail(e, c) == [k |-> "err", e |-> e, c |-> c]
Panic(c)   == [k |-> "panic", e |-> NoErr, c |-> c]
Ret(e, c)  == IF e = NoErr THEN Ok(c) ELSE Fail(e, c)

----------------------------------------------------------------------------
(* regCache                                                                *)

EmptyMap == [p \in {} |-> 0]
EmptyCache == [mu |-> 0, m |-> EmptyMap]

MapStore(m, expr, exp) ==
    [p \in DOMAIN m \cup {expr} |-> IF p = expr THEN exp ELSE m[p]]

\* reset: r.Map = sync.Map{}
regCacheReset(c) == EmptyCache

\* Get that never looks the pattern up
regCacheGetNoLoad(c, expr) ==
    IF CompileFails(expr)
    THEN [exp |-> Compile(<<>>), ok |-> FALSE, c |-> c, compiled |-> TRUE]
    ELSE [exp |-> Compile(expr), ok |-> TRUE,
          c |-> [c EXCEPT !.m = MapStore(c.m, expr, Compile(expr))],
          compiled |-> TRUE]

\* Get by one caller at a time: exp, whether err is nil, the cache after,
\* and whether regexp.Compile was called
regCacheGet(c, expr) ==
    IF expr \in DOMAIN c.m
    THEN [exp |-> c.m[expr], ok |-> TRUE, c |-> c, compiled |-> FALSE]
    ELSE IF CompileFails(expr)
    THEN [exp |-> Compile(<<>>), ok |-> FALSE, c |-> c, compiled |-> TRUE]
    ELSE [exp |-> Compile(expr), ok |-> TRUE,
          c |-> [c EXCEPT !.m = MapStore(c.m, expr, Compile(expr))],
          compiled |-> TRUE]

----------------------------------------------------------------------------
(* The typed checkers.  Each returns the error (NoErr for nil).            *)

getRule(field) == IF field.opt = "ok" THEN field.rule ELSE NilRule

checkRepeated(field, values, rule) ==
    LET _len == BigOf(Len(values))
    IN IF rule.nil THEN NoErr
       ELSE IF Has(rule.RepeatedCountMin)
               /\ ~BigLe(Val(rule.RepeatedCountMin), _len)
       THEN ValidFail(field, "RepeatedCountMin",
                      V("int64", Val(rule.RepeatedCountMin)), V("int64", _len))
       ELSE IF Has(rule.RepeatedCountMax)
               /\ ~BigLe(_len, Val(rule.RepeatedCountMax))
       THEN ValidFail(field, "RepeatedCountMax",
                      V("int64", Val(rule.RepeatedCountMax)), V("int64", _len))
       ELSE NoErr

checkInt(field, value, rule) ==
    IF rule.nil THEN NoErr
    ELSE IF Has(rule.IntGt) /\ ~BigLt(Val(rule.IntGt), value)
    THEN ValidFail(field, "IntGt", V("int64", Val(rule.IntGt)), V("int64", value))
    ELSE IF Has(rule.IntLt) /\ ~BigLt(value, Val(rule.IntLt))
    THEN ValidFail(field, "IntLt", V("int64", Val(rule.IntLt)), V("int64", value))
    ELSE NoErr

\* checkFloat without the epsilon widening
checkFloatNoEps(field, value, rule) ==
    IF rule.nil THEN NoErr
    ELSE IF Has(rule.FloatGt) /\ ~FGt(value, Val(rule.FloatGt))
    THEN ValidFail(field, "FloatGt", V("float64", Val(rule.FloatGt)), V("float64", value))
    ELSE IF Has(rule.FloatLt) /\ ~FLt(value, Val(rule.FloatLt))
    THEN ValidFail(field, "FloatLt", V("float64", Val(rule.FloatLt)), V("float64", value))
    ELSE IF Has(rule.FloatGte) /\ ~FGe(value, Val(rule.FloatGte))
    THEN ValidFail(field, "FloatGte", V("float64", Val(rule.FloatGte)), V("float64", value))
    ELSE IF Has(rule.FloatLte) /\ ~FLe(value, Val(rule.FloatLte))
    THEN ValidFail(field, "FloatLte", V("float64", Val(rule.FloatLte)), V("float64", value))
    ELSE NoErr

checkFloat(field, value, rule) ==
    IF rule.nil THEN NoErr
    ELSE
    LET eps == Has(rule.FloatEpsilon)
        valueMax == IF eps THEN FAdd(value, Val(rule.FloatEpsilon)) ELSE value
        valueMin == IF eps THEN FSub(value, Val(rule.FloatEpsilon)) ELSE value
    IN IF Has(rule.FloatGt) /\ ~FGt(valueMax, Val(rule.FloatGt))
       THEN ValidFail(field, "FloatGt", V("float64", Val(rule.FloatGt)),
                      V("float64", value))
       ELSE IF Has(rule.FloatLt) /\ ~FLt(valueMin, Val(rule.FloatLt))
       THEN ValidFail(field, "FloatLt", V("float64", Val(rule.FloatLt)),
                      V("float64", value))
       ELSE IF Has(rule.FloatGte) /\ ~FGe(valueMax, Val(rule.FloatGte))
       THEN ValidFail(field, "FloatGte", V("float64", Val(rule.FloatGte)),
                      V("float64", value))
       ELSE IF Has(rule.FloatLte) /\ ~FLe(valueMin, Val(rule.FloatLte))
       THEN ValidFail(field, "FloatLte", V("float64", Val(rule.FloatLte)),
                      V("float64", value))
       ELSE NoErr

\* the length constraints shared by checkString and checkBytes
checkLength(field, _len, rule) ==
    IF Has(rule.LengthGt) /\ ~BigLt(Val(rule.LengthGt), _len)
    THEN ValidFail(field, "LengthGt", V("int64", Val(rule.LengthGt)), V("int64", _len))
    ELSE IF Has(rule.LengthLt) /\ ~BigLt(_len, Val(rule.LengthLt))
    THEN ValidFail(field, "LengthLt", V("int64", Val(rule.LengthLt)), V("int64", _len))
    ELSE IF Has(rule.LengthEq) /\ ~(_len = Val(rule.LengthEq))
    THEN ValidFail(field, "LengthEq", V("int64", Val(rule.LengthEq)), V("int64", _len))
    ELSE NoErr

\* checkString reporting a pattern that does not compile as a violation
checkRegexCompileErrFails(field, value, rule, c) ==
    IF ~Has(rule.Regex) THEN Ok(c)
    ELSE LET g == regCacheGet(c, Val(rule.Regex))
         IN IF ~g.ok \/ ~MatchString(g.exp, value)
            THEN Fail(ValidFail(field, "Regex", V("string", Val(rule.Regex)),
                                V("string", value)), g.c)
            ELSE Ok(g.c)

\* the regex constraint of checkString: the error and the cache after r.Get
checkRegex(field, value, rule, c) ==
    IF ~Has(rule.Regex) THEN Ok(c)
    ELSE LET g == regCacheGet(c, Val(rule.Regex))
         IN IF ~g.ok THEN Ok(g.c)
            ELSE IF ~MatchString(g.exp, value)
            THEN Fail(ValidFail(field, "Regex", V("string", Val(rule.Regex)),
                                V("string", value)), g.c)
            ELSE Ok(g.c)

checkString(field, value, rule, c) ==
    IF rule.nil THEN Ok(c)
    ELSE IF Has(rule.StringNotEmpty) /\ Val(rule.StringNotEmpty) /\ value = <<>>
    THEN Fail(ValidFail(field, "StringNotEmpty",
                        V("bool", Val(rule.StringNotEmpty)), V("string", value)), c)
    ELSE LET e == checkLength(field, BigOf(Len(value)), rule)
         IN IF e # NoErr THEN Fail(e, c)
            ELSE checkRegex(field, value, rule, c)

checkBytes(field, value, rule) ==
    IF rule.nil THEN NoErr
    ELSE checkLength(field, BigOf(Len(value)), rule)

checkEnum(field, value, rule) ==
    IF rule.nil \/ ~Has(rule.IsInEnum) \/ ~Val(rule.IsInEnum) THEN NoErr
    ELSE IF value \in field.enum THEN NoErr
    ELSE ValidFail(field, "IsInEnum", V("bool", Val(rule.IsInEnum)),
                   V("bool", FALSE))

----------------------------------------------------------------------------
(* The traversal.  Each operator yields the set of ways the call can end:  *)
(* ranging over a Go map visits the entries in an unspecified order, so a   *)
(* map field can have several.                                              *)

Int32Types  == {"INT32", "SINT32", "SFIXED32"}
Int64Types  == {"INT64", "SINT64", "SFIXED64"}
Uint32Types == {"UINT32", "FIXED32"}
Uint64Types == {"UINT64", "FIXED64"}

RECURSIVE ValidMsg(_, _)
RECURSIVE Valid(_, _)
RECURSIVE ValidFrom(_, _, _)
RECURSIVE validMap(_, _, _, _)
RECURSIVE MapFrom(_, _, _, _, _)
RECURSIVE validRepeated(_, _, _, _)
RECURSIVE ItemsFrom(_, _, _, _, _)
RECURSIVE validField(_, _, _, _)
RECURSIVE checkMessage(_, _, _, _)

\* a type assertion value.(T) of validField followed by the checker: the
\* assertion panics when the dynamic type of value is not T
Asserted(value, t, e, c) == IF value.t # t THEN Panic(c) ELSE Ret(e, c)

\* checkMessage reporting a nested violation as one of the wrapper field
checkMessageAsWrapper(field, value, rule, c) ==
    IF value.t # "msg" THEN {Ok(c)}
    ELSE { IF o.k = "err"
           THEN Fail(ValidFail(field, o.e.validKey, o.e.validValue, o.e.fieldValue), o.c)
           ELSE o : o \in ValidMsg(value.v, c) }

checkMessage(field, value, rule, c) ==
    IF value.t # "msg" THEN {Ok(c)}
    ELSE ValidMsg(value.v, c)

validField(field, value, rule, c) ==
    IF value.t = "nil" THEN {Ok(c)}
    ELSE IF field.type = "MESSAGE" THEN checkMessage(field, value, rule, c)
    ELSE IF field.type \in Int32Types
    THEN {Asserted(value, "int32", checkInt(field, Int64Of32(value.v), rule), c)}
    ELSE IF field.type \in Int64Types
    THEN {Asserted(value, "int64", checkInt(field, value.v, rule), c)}
    ELSE IF field.type \in Uint32Types
    THEN {Asserted(value, "uint32", checkInt(field, Int64Of32(value.v), rule), c)}
    ELSE IF field.type \in Uint64Types
    THEN {Asserted(value, "uint64", checkInt(field, Int64OfUint64(value.v), rule), c)}
    ELSE IF field.type = "FLOAT"
    THEN {Asserted(value, "float32", checkFloat(field, value.v, rule), c)}
    ELSE IF field.type = "DOUBLE"
    THEN {Asserted(value, "float64", checkFloat(field, value.v, rule), c)}
    ELSE IF field.type = "STRING"
    THEN {IF value.t # "string" THEN Panic(c)
          ELSE checkString(field, value.v, rule, c)}
    ELSE IF field.type = "BYTES"
    THEN {Asserted(value, "bytes", checkBytes(field, value.v, rule), c)}
    ELSE IF field.type = "ENUM"
    THEN {Asserted(value, "int32", checkEnum(field, value.v, rule), c)}
    ELSE {Ok(c)}

\* the loop of validRepeated from element i on
ItemsFrom(field, vList, i, rule, c) ==
    IF i > Len(vList) THEN {Ok(c)}
    ELSE UNION { IF o.k = "nil" THEN ItemsFrom(field, vList, i + 1, rule, o.c)
                 ELSE {o} : o \in validField(field, vList[i], rule, c) }

\* validRepeated checking the elements before the count
validRepeatedItemsFirst(field, value, rule, c) ==
    IF value.t = "nil" THEN {Ok(c)}
    ELSE IF value.t # "list" THEN {Ok(c)}
    ELSE UNION { IF o.k # "nil" THEN {o}
                 ELSE {Ret(checkRepeated(field, value.v, rule), o.c)}
                 : o \in ItemsFrom(field, value.v, 1, rule, c) }

validRepeated(field, value, rule, c) ==
    IF value.t = "nil" THEN {Ok(c)}
    ELSE IF value.t # "list" THEN {Ok(c)}
    ELSE LET e == checkRepeated(field, value.v, rule)
         IN IF e # NoErr THEN {Fail(e, c)}
            ELSE ItemsFrom(field, value.v, 1, rule, c)

\* the loop of validMap over the entries not yet visited, in any order
MapFrom(field, vList, left, rule, c) ==
    IF left = {} THEN {Ok(c)}
    ELSE UNION { UNION {
        IF ko.k # "nil" THEN {ko}
        ELSE UNION { IF io.k = "nil"
                     THEN MapFrom(field, vList, left \ {n}, rule, io.c)
                     ELSE {io}
                     : io \in validField(Val(field.val), vList[n].item, NilRule, ko.c) }
        : ko \in validField(Val(field.key), vList[n].key, rule, c) }
      : n \in left }

\* validMap applying the rule of the field to the values as well
validMapRuleOnItems(field, value, rule, c) ==
    IF value.t = "nil" THEN {Ok(c)}
    ELSE IF value.t # "map" THEN {Ok(c)}
    ELSE UNION { UNION { IF ko.k # "nil" THEN {ko}
                         ELSE validField(Val(field.val), value.v[n].item, rule, ko.c)
                         : ko \in validField(Val(field.key), value.v[n].key, rule, c) }
                 : n \in DOMAIN value.v }

validMap(field, value, rule, c) ==
    IF value.t = "nil" THEN {Ok(c)}
    ELSE IF value.t # "map" THEN {Ok(c)}
    ELSE MapFrom(field, value.v, DOMAIN value.v, rule, c)

\* one iteration of the loop of Valid, on known field f
ValidOne(f, c) ==
    IF f.fd.ext THEN {Ok(c)}
    ELSE IF f.readErr THEN {Ok(c)}
    ELSE LET rule == getRule(f.fd)
         IN IF f.fd.label = "map" THEN validMap(f.fd, f.value, rule, c)
            ELSE IF f.fd.label = "repeated"
            THEN validRepeated(f.fd, f.value, rule, c)
            ELSE validField(f.fd, f.value, rule, c)

\* the loop of Valid from known field i on
ValidFrom(m, i, c) ==
    IF i > Len(m.fields) THEN {Ok(c)}
    ELSE UNION { IF o.k = "nil" THEN ValidFrom(m, i + 1, o.c) ELSE {o}
                 : o \in ValidOne(m.fields[i], c) }

Valid(m, c) == IF m.nil THEN {Ok(c)} ELSE ValidFrom(m, 1, c)

\* ValidMsg without the deferred recover()
ValidMsgNoRecover(m, c) == Valid(m, c)

\* the deferred recover() turns a panic of Valid into a nil error
ValidMsg(m, c) == { IF o.k = "panic" THEN Ok(o.c) ELSE o : o \in Valid(m, c) }

----------------------------------------------------------------------------
(* The messages validated: a schema of decorated fields and, per field,    *)
(* the values a message can hold in it, among them values whose dynamic     *)
(* type is not the one the declared kind calls for.                         *)

MaxFields == 2

Str(v) == V("string", v)
I32(n) == V("int32", BigOf(n))

KeyFD(type) == FD("key", type, "single", "nil", EmptyRule)
ValFD(type) == FD("value", type, "single", "nil", EmptyRule)

AgeFD == FD("age", "INT32", "single", "ok",
            [EmptyRule EXCEPT !.IntGt = <<BigOf(0)>>, !.IntLt = <<BigOf(150)>>])
UidFD == FD("uid", "UINT64", "single", "ok",
            [EmptyRule EXCEPT !.IntGt = <<BigOf(0)>>])
NameFD == FD("name", "STRING", "single", "ok",
             [EmptyRule EXCEPT !.StringNotEmpty = <<TRUE>>,
                               !.LengthLt = <<BigOf(3)>>, !.Regex = <<<<"a">>>>])
CodeFD == FD("code", "STRING", "single", "ok",
             [EmptyRule EXCEPT !.Regex = <<<<"(">>>>, !.LengthEq = <<BigOf(1)>>])
TagsFD == FD("tags", "STRING", "repeated", "ok",
             [EmptyRule EXCEPT !.RepeatedCountMin = <<BigOf(1)>>,
                               !.RepeatedCountMax = <<BigOf(2)>>,
                               !.LengthLt = <<BigOf(2)>>])
AttrsFD == [FD("attrs", "MESSAGE", "map", "ok",
               [EmptyRule EXCEPT !.LengthGt = <<BigOf(1)>>,
                                 !.RepeatedCountMin = <<BigOf(3)>>,
                                 !.IntGt = <<BigOf(5)>>])
            EXCEPT !.key = <<KeyFD("STRING")>>, !.val = <<ValFD("INT32")>>]
XFD == FD("x", "INT32", "single", "ok", [EmptyRule EXCEPT !.IntGt = <<BigOf(0)>>])
YFD == FD("y", "STRING", "single", "ok",
          [EmptyRule EXCEPT !.StringNotEmpty = <<TRUE>>])
KidsFD == [FD("kids", "MESSAGE", "map", "ok",
              [EmptyRule EXCEPT !.LengthGt = <<BigOf(0)>>])
           EXCEPT !.key = <<KeyFD("STRING")>>, !.val = <<ValFD("MESSAGE")>>]
\* the rule on a message field is set to constraints no nested value meets
InnerFD == FD("inner", "MESSAGE", "single", "ok",
              [EmptyRule EXCEPT !.IntGt = <<BigOf(1000)>>,
                                !.LengthEq = <<BigOf(7)>>,
                                !.StringNotEmpty = <<TRUE>>,
                                !.RepeatedCountMin = <<BigOf(9)>>])
OuterFD == FD("outer", "MESSAGE", "single", "nil", EmptyRule)
ListFD == FD("list", "MESSAGE", "repeated", "nil", EmptyRule)
ExtFD == [FD("ext", "INT32", "single", "ok",
             [EmptyRule EXCEPT !.IntGt = <<BigOf(0)>>]) EXCEPT !.ext = TRUE]
LostFD == FD("lost", "INT32", "single", "ok",
             [EmptyRule EXCEPT !.IntGt = <<BigOf(0)>>])
RawFD(opt) == FD("raw", "INT32", "single", opt,
                 [EmptyRule EXCEPT !.IntGt = <<BigOf(0)>>])
KindFD == [FD("kind", "ENUM", "single", "ok",
              [EmptyRule EXCEPT !.IsInEnum = <<TRUE>>])
           EXCEPT !.enum = {BigOf(0), BigOf(1)}]
ScoreFD == FD("score", "FLOAT", "single", "ok",
              [EmptyRule EXCEPT !.FloatGte = <<Fin(30)>>,
                                !.FloatEpsilon = <<Fin(5)>>])
BlobFD == FD("blob", "BYTES", "single", "ok",
             [EmptyRule EXCEPT !.LengthEq = <<BigOf(1)>>,
                               !.StringNotEmpty = <<TRUE>>,
                               !.Regex = <<<<"a">>>>])
FlagFD == FD("flag", "BOOL", "single", "ok",
             [EmptyRule EXCEPT !.IntGt = <<BigOf(0)>>])

Entry(key, item) == [key |-> key, item |-> item]

\* a message of the nested type Inner {x, y}
Inner(x, y) == V("msg", Msg(<<F(XFD, x), F(YFD, y)>>))

InnerValues ==
    { Inner(I32(5), Str(<<"a">>)), Inner(I32(0), Str(<<"a">>)),
      Inner(I32(5), Str(<<>>)), Inner(Str(<<"s">>), Str(<<>>)),
      Inner(I32(0), I32(1)) }

FieldPool ==
    { F(AgeFD, v) : v \in {I32(30), I32(0), Str(<<"x">>), NilValue} }
    \cup { F(UidFD, v) : v \in {V("uint64", Pow63), V("uint64", BigOf(1))} }
    \cup { F(NameFD, Str(v)) : v \in {<<"a">>, <<>>, <<"b", "a">>, <<"b">>} }
    \cup { F(CodeFD, Str(v)) : v \in {<<"a">>, <<"a", "b">>} }
    \cup { F(TagsFD, v) : v \in
            { V("list", <<>>), V("list", <<Str(<<"a">>)>>),
              V("list", <<Str(<<"a">>), Str(<<"a", "b">>)>>),
              V("list", <<Str(<<"a", "b">>), Str(<<"a">>), Str(<<"a", "b">>)>>),
              V("list", <<I32(1), Str(<<"a", "b">>)>>),
              V("list", <<I32(1), I32(1), I32(1)>>),
              Str(<<"a", "b">>) } }
    \cup { F(AttrsFD, v) : v \in
            { V("map", <<Entry(Str(<<"a", "a">>), I32(1))>>),
              V("map", <<Entry(Str(<<"a">>), I32(1))>>),
              V("map", <<Entry(Str(<<>>), I32(1)), Entry(Str(<<"a">>), I32(2))>>),
              V("map", <<Entry(Str(<<"a", "a">>), Str(<<"v">>))>>),
              V("map", <<Entry(I32(1), I32(1)), Entry(Str(<<"a">>), I32(1))>>),
              I32(1) } }
    \cup { F(KidsFD, V("map", <<Entry(Str(<<"k">>), v)>>)) :
            v \in {Inner(I32(5), Str(<<"a">>)), Inner(I32(0), Str(<<"a">>))} }
    \cup { F(InnerFD, v) : v \in InnerValues \cup {V("msg", NilMsg), I32(0)} }
    \cup { F(OuterFD, V("msg", Msg(<<F(InnerFD, v), F(AgeFD, I32(0))>>))) :
            v \in {Inner(I32(5), Str(<<>>)), Inner(Str(<<"s">>), Str(<<>>))} }
    \cup { F(ListFD, V("list", <<Inner(Str(<<"s">>), Str(<<>>)),
                                 Inner(I32(0), Str(<<"a">>))>>)) }
    \cup { F(ExtFD, I32(0)) }
    \cup { [F(LostFD, I32(0)) EXCEPT !.readErr = TRUE] }
    \cup { F(RawFD(opt), I32(0)) : opt \in {"nil", "err", "badtype"} }
    \cup { F(KindFD, v) : v \in {I32(1), I32(5)} }
    \cup { F(ScoreFD, V("float32", v)) : v \in {Fin(27), Fin(20)} }
    \cup { F(BlobFD, V("bytes", v)) : v \in {<<97>>, <<>>} }
    \cup { F(FlagFD, V("bool", FALSE)) }

\* the fields of a message have distinct names
DistinctNames(fs) ==
    \A i, j \in DOMAIN fs : i # j => fs[i].fd.name # fs[j].fd.name

Messages ==
    {NilMsg}
    \cup { Msg(fs) : fs \in { g \in UNION { [1..n -> FieldPool] : n \in 0..MaxFields } :
                              DistinctNames(g) } }

----------------------------------------------------------------------------
(* Messages of one string field, over every rule of a grid of string       *)
(* constraints and every short string.                                     *)

MaxStrLen == 2
MaxPatLen == 2

Alphabet   == {"a", "b"}
PatSymbols == {"a", "b", ".", "*", "^", "$", "("}

Strings  == UNION { [1..n -> Alphabet] : n \in 0..MaxStrLen }
Patterns == UNION { [1..n -> PatSymbols] : n \in 1..MaxPatLen }

StrRules ==
    { [EmptyRule EXCEPT !.Regex = re, !.StringNotEmpty = ne, !.LengthGt = gt,
                        !.LengthLt = lt, !.LengthEq = eq] :
        re \in {<<>>} \cup { <<p>> : p \in Patterns },
        ne \in {<<>>, <<TRUE>>, <<FALSE>>},
        gt \in {<<>>, <<BigOf(1)>>},
        lt \in {<<>>, <<BigOf(2)>>},
        eq \in {<<>>, <<BigOf(1)>>} }

StrMessages ==
    { Msg(<<F(FD("s", "STRING", "single", "ok", rule), Str(v))>>) :
        rule \in StrRules, v \in Strings }

(* Messages of one integer field, over every integer kind, the values at   *)
(* the edges of its range and a grid of int_gt / int_lt.                    *)

IntEdges ==
    { BigOf(0), BigOf(1), BigOf(-1), BigOf(150), MinInt32, MaxInt32, MaxUint32,
      MinInt64, MaxInt64, Pow63, MaxUint64 }

\* the Go type TryGetField yields for a declared integer kind
GoIntType(type) ==
    IF type \in Int32Types THEN "int32"
    ELSE IF type \in Int64Types THEN "int64"
    ELSE IF type \in Uint32Types THEN "uint32"
    ELSE "uint64"

IntValuesOf(t) ==
    { b \in IntEdges :
        IF t = "int32" THEN InRange(b, MinInt32, MaxInt32)
        ELSE IF t = "int64" THEN InRange(b, MinInt64, MaxInt64)
        ELSE IF t = "uint32" THEN InRange(b, BigOf(0), MaxUint32)
        ELSE InRange(b, BigOf(0), MaxUint64) }

IntBounds ==
    {<<>>} \cup { <<b>> : b \in {BigOf(0), BigOf(150), BigOf(-1), MinInt64, MaxInt64} }

IntMessages ==
    UNION { { Msg(<<F(FD("n", type, "single", "ok",
                         [EmptyRule EXCEPT !.IntGt = gt, !.IntLt = lt]),
                      V(GoIntType(type), b))>>) :
                gt \in IntBounds, lt \in IntBounds, b \in IntValuesOf(GoIntType(type)) }
            : type \in Int32Types \cup Int64Types \cup Uint32Types \cup Uint64Types }

(* Messages of one floating-point field, over a grid of bounds and         *)
(* epsilon; values are in hundredths.                                      *)

FloatValues == { Fin(20), Fin(25), Fin(27), Fin(30), Fin(35), NaN, PosInf, NegInf }
FloatBounds == { <<>>, <<Fin(25)>>, <<Fin(30)>> }
FloatEps    == { <<>>, <<Fin(0)>>, <<Fin(5)>> }

FloatMessages ==
    { Msg(<<F(FD("score", type, "single", "ok",
                 [EmptyRule EXCEPT !.FloatGt = gt, !.FloatLt = lt, !.FloatGte = gte,
                                   !.FloatLte = lte, !.FloatEpsilon = e]),
              V(IF type = "FLOAT" THEN "float32" ELSE "float64", v))>>) :
        type \in {"FLOAT", "DOUBLE"}, gt \in FloatBounds, lt \in FloatBounds,
        gte \in FloatBounds, lte \in FloatBounds, e \in FloatEps, v \in FloatValues }

----------------------------------------------------------------------------
(* ValidMsg as the caller drives it: one step per iteration of the loop of *)
(* Valid on the top-level message.                                         *)

\* the process-wide cache may already hold patterns compiled earlier
InitCaches ==
    {EmptyCache, [EmptyCache EXCEPT !.m = MapStore(EmptyMap, <<"a">>, Compile(<<"a">>))]}

InitIdle ==
    /\ cache \in InitCaches
    /\ pc = "idle" /\ idx = 0 /\ err = NoErr /\ evaluated = {}
    /\ recovered = FALSE /\ prev = <<>>
    /\ tpc = <<>> /\ targ = <<>> /\ tret = <<>> /\ crashed = ""
    /\ compiles = EmptyMap /\ hist = <<>>

Init == msg \in Messages /\ InitIdle

\* ValidMsg(msg) is called; a nil message and a message without known
\* fields return nil at once
Call ==
    /\ pc = "idle" /\ Len(prev) < 2
    /\ evaluated' = {} /\ recovered' = FALSE /\ err' = NoErr
    /\ IF msg.nil \/ Len(msg.fields) = 0
       THEN pc' = "done" /\ idx' = 0
       ELSE pc' = "loop" /\ idx' = 1
    /\ UNCHANGED <<msg, cache, prev>> /\ UNCHANGED thrVars

\* one iteration of the loop of Valid; an error returns, a panic is
\* recovered by ValidMsg and returns nil
Step ==
    /\ pc = "loop"
    /\ LET f == msg.fields[idx]
       IN \E o \in ValidOne(f, cache) :
            /\ cache' = o.c
            /\ evaluated' = IF f.fd.ext \/ f.readErr THEN evaluated
                            ELSE evaluated \cup {idx}
            /\ err' = o.e
            /\ recovered' = (o.k = "panic")
            /\ IF o.k = "nil" /\ idx < Len(msg.fields)
               THEN pc' = "loop" /\ idx' = idx + 1
               ELSE pc' = "done" /\ idx' = idx
    /\ UNCHANGED <<msg, prev>> /\ UNCHANGED thrVars

\* the caller takes the result
Return ==
    /\ pc = "done"
    /\ pc' = "idle" /\ prev' = Append(prev, err)
    /\ UNCHANGED <<msg, cache, idx, err, evaluated, recovered>>
    /\ UNCHANGED thrVars

\* ResetRegCache(), between or during validations
ResetRegCache ==
    /\ cache.m # EmptyMap
    /\ tpc = <<>>
    /\ cache' = regCacheReset(cache)
    /\ UNCHANGED valVars /\ UNCHANGED thrVars

Next == Call \/ Step \/ Return \/ ResetRegCache

Spec == Init /\ [][Next]_vars

----------------------------------------------------------------------------
(* The regexp cache under concurrent callers: goroutines that call         *)
(* regCache.Get and regCache.reset with no lock of their own.  Get is      *)
(* Load, Compile, Store; Store (sync.Map) takes the mutex of the map,      *)
(* writes the entry and releases the mutex; reset overwrites the whole     *)
(* sync.Map value, mutex and entries, with plain writes.                   *)

NThreads == 2
MaxCompiles == 2

Threads == 1..NThreads
CachePatterns == {<<"a">>, <<"a", "*">>, <<"(">>}

InitCache ==
    /\ msg = NilMsg /\ cache = EmptyCache
    /\ pc = "idle" /\ idx = 0 /\ err = NoErr /\ evaluated = {}
    /\ recovered = FALSE /\ prev = <<>>
    /\ tpc = [t \in Threads |-> "idle"]
    /\ targ = [t \in Threads |-> <<>>]
    /\ tret = [t \in Threads |-> <<>>]
    /\ crashed = ""
    /\ compiles = [p \in CachePatterns |-> 0]
    /\ hist = <<>>

Running(t) == crashed = "" /\ tpc # <<>> /\ t \in DOMAIN tpc

\* the goroutines that are in Get(p) and have not compiled yet
InFlight(p) == { t \in Threads : tpc[t] \in {"load", "compile"} /\ targ[t] = p }

\* Get(expr) is called
GetCall(t, expr) ==
    /\ Running(t) /\ tpc[t] = "idle"
    /\ compiles[expr] + Cardinality(InFlight(expr)) < MaxCompiles
    /\ tpc' = [tpc EXCEPT ![t] = "load"]
    /\ targ' = [targ EXCEPT ![t] = expr]
    /\ tret' = [tret EXCEPT ![t] = <<>>]
    /\ UNCHANGED <<cache, crashed, compiles>> /\ UNCHANGED valVars /\ UNCHANGED hist

\* r.Map.Load(expr): a hit returns the cached *Regexp
GetLoad(t) ==
    /\ Running(t) /\ tpc[t] = "load"
    /\ IF targ[t] \in DOMAIN cache.m
       THEN /\ tret' = [tret EXCEPT ![t] =
                          <<[expr |-> targ[t], exp |-> cache.m[targ[t]], ok |-> TRUE]>>]
            /\ tpc' = [tpc EXCEPT ![t] = "idle"]
       ELSE /\ tpc' = [tpc EXCEPT ![t] = "compile"]
            /\ UNCHANGED tret
    /\ UNCHANGED <<cache, targ, crashed, compiles>> /\ UNCHANGED valVars /\ UNCHANGED hist

\* regexp.Compile(expr): an error returns
GetCompile(t) ==
    /\ Running(t) /\ tpc[t] = "compile"
    /\ compiles' = [compiles EXCEPT ![targ[t]] = @ + 1]
    /\ IF CompileFails(targ[t])
       THEN /\ tret' = [tret EXCEPT ![t] =
                          <<[expr |-> targ[t], exp |-> Compile(<<>>), ok |-> FALSE]>>]
            /\ tpc' = [tpc EXCEPT ![t] = "idle"]
       ELSE /\ tpc' = [tpc EXCEPT ![t] = "lock"]
            /\ UNCHANGED tret
    /\ UNCHANGED <<cache, targ, crashed>> /\ UNCHANGED valVars /\ UNCHANGED hist

\* r.Map.Store(expr, exp): m.mu.Lock()
StoreLock(t) ==
    /\ Running(t) /\ tpc[t] = "lock"
    /\ cache.mu = 0
    /\ cache' = [cache EXCEPT !.mu = t]
    /\ tpc' = [tpc EXCEPT ![t] = "write"]
    /\ UNCHANGED <<targ, tret, crashed, compiles>> /\ UNCHANGED valVars /\ UNCHANGED hist

\* r.Map.Store(expr, exp): the entry is written
StoreWrite(t) ==
    /\ Running(t) /\ tpc[t] = "write"
    /\ cache' = [cache EXCEPT !.m = MapStore(cache.m, targ[t], Compile(targ[t]))]
    /\ tpc' = [tpc EXCEPT ![t] = "unlock"]
    /\ UNCHANGED <<targ, tret, crashed, compiles>> /\ UNCHANGED valVars /\ UNCHANGED hist

\* r.Map.Store(expr, exp): m.mu.Unlock(), then Get returns exp.  Unlocking
\* a mutex that is not locked is a fatal error of the runtime
StoreUnlock(t) ==
    /\ Running(t) /\ tpc[t] = "unlock"
    /\ IF cache.mu = 0
       THEN /\ crashed' = "fatal error: sync: unlock of unlocked mutex"
            /\ UNCHANGED <<cache, tret>>
       ELSE /\ cache' = [cache EXCEPT !.mu = 0]
            /\ tret' = [tret EXCEPT ![t] =
                          <<[expr |-> targ[t], exp |-> Compile(targ[t]), ok |-> TRUE]>>]
            /\ UNCHANGED crashed
    /\ tpc' = [tpc EXCEPT ![t] = "idle"]
    /\ UNCHANGED <<targ, compiles>> /\ UNCHANGED valVars /\ UNCHANGED hist

\* reset() is called (ResetRegCache)
ResetCall(t) ==
    /\ Running(t) /\ tpc[t] = "idle"
    /\ cache # EmptyCache
    /\ tpc' = [tpc EXCEPT ![t] = "reset"]
    /\ UNCHANGED <<cache, targ, tret, crashed, compiles>> /\ UNCHANGED valVars /\ UNCHANGED hist

\* r.Map = sync.Map{}: the words of the struct are written one after the
\* other, in either order; here the mutex word
ResetMutex(t) ==
    /\ Running(t) /\ tpc[t] \in {"reset", "resetMutex"}
    /\ cache' = [cache EXCEPT !.mu = 0]
    /\ tpc' = [tpc EXCEPT ![t] = IF tpc[t] = "reset" THEN "resetEntries" ELSE "idle"]
    /\ UNCHANGED <<targ, tret, crashed, compiles>> /\ UNCHANGED valVars /\ UNCHANGED hist

\* r.Map = sync.Map{}: the words that hold the entries
ResetEntries(t) ==
    /\ Running(t) /\ tpc[t] \in {"reset", "resetEntries"}
    /\ cache' = [cache EXCEPT !.m = EmptyMap]
    /\ tpc' = [tpc EXCEPT ![t] = IF tpc[t] = "reset" THEN "resetMutex" ELSE "idle"]
    /\ UNCHANGED <<targ, tret, crashed, compiles>> /\ UNCHANGED valVars /\ UNCHANGED hist

NextCache ==
    \E t \in Threads :
        \/ \E expr \in CachePatterns : GetCall(t, expr)
        \/ GetLoad(t) \/ GetCompile(t)
        \/ StoreLock(t) \/ StoreWrite(t) \/ StoreUnlock(t)
        \/ ResetCall(t) \/ ResetMutex(t) \/ ResetEntries(t)

SpecCache == InitCache /\ [][NextCache]_vars

----------------------------------------------------------------------------
(* The regexp cache under a single caller: a sequence of r.Get(expr) and   *)
(* ResetRegCache() calls, each running to completion before the next.     *)

MaxCalls == 4

InitSeq == msg = NilMsg /\ InitIdle /\ cache = EmptyCache

\* r.Get(expr) returns
Get(expr) ==
    /\ Len(hist) < MaxCalls
    /\ LET g == regCacheGet(cache, expr)
       IN /\ cache' = g.c
          /\ hist' = Append(hist, [op |-> "Get", expr |-> expr, ok |-> g.ok,
                                   exp |-> g.exp, compiled |-> g.compiled])
    /\ UNCHANGED valVars /\ UNCHANGED <<tpc, targ, tret, crashed, compiles>>

\* ResetRegCache() returns
reset ==
    /\ Len(hist) < MaxCalls
    /\ cache' = regCacheReset(cache)
    /\ hist' = Append(hist, [op |-> "reset", expr |-> <<>>, ok |-> TRUE,
                             exp |-> Compile(<<>>), compiled |-> FALSE])
    /\ UNCHANGED valVars /\ UNCHANGED <<tpc, targ, tret, crashed, compiles>>

NextSeq == (\E expr \in CachePatterns : Get(expr)) \/ reset

SpecSeq == InitSeq /\ [][NextSeq]_vars

InitStr   == msg \in StrMessages /\ InitIdle
InitInt   == msg \in IntMessages /\ InitIdle
InitFloat == msg \in FloatMessages /\ InitIdle

SpecStr   == InitStr /\ [][Next]_vars
SpecInt   == InitInt /\ [][Next]_vars
SpecFloat == InitFloat /\ [][Next]_vars

----------------------------------------------------------------------------
(* What a field does when it is checked on its own.                        *)

\* the violations the check of known field f can report
Violations(f) == { o.e : o \in { o \in ValidOne(f, EmptyCache) : o.k = "err" } }

\* the check of f meets a value whose dynamic type is not the one the
\* declared kind calls for
Anomalous(f) == \E o \in ValidOne(f, EmptyCache) : o.k = "panic"

Fields == msg.fields

----------------------------------------------------------------------------
(* C1: an internal anomaly on one field never aborts the validation of its *)
(* sibling fields: when some field holds a value of the wrong shape and     *)
(* another field of the message, declared before or after it, violates its  *)
(* rule, ValidMsg returns that other field's violation.                     *)
C1_AnomalyKeepsSiblings ==
    pc = "done" =>
        \A i, j \in DOMAIN Fields :
            (i # j /\ Anomalous(Fields[i]) /\ Violations(Fields[j]) # {})
            => \E k \in DOMAIN Fields :
                   ~Anomalous(Fields[k]) /\ err \in Violations(Fields[k])

----------------------------------------------------------------------------
(* Messages of a single known field.                                       *)

Done1  == pc = "done" /\ ~msg.nil /\ Len(Fields) = 1
TheFD  == Fields[1].fd
TheVal == Fields[1].value
TheRule == getRule(TheFD)

AnchorFree(p) == \A i \in DOMAIN p : p[i] \notin {"^", "$"}

\* some contiguous part of s (possibly empty, possibly all of s) is matched
\* by pattern p from its first to its last character
SomePartMatches(p, s) ==
    \E i \in 0..Len(s) : \E j \in i..Len(s) :
        MatchWhole(Compile(p), SubSeq(s, i + 1, j))

\* a string field with a pattern that compiles and no other constraint
\* violated, after ValidMsg
RegexCase ==
    /\ Done1
    /\ TheFD.type = "STRING" /\ TheVal.t = "string"
    /\ Has(TheRule.Regex) /\ ~CompileFails(Val(TheRule.Regex))
    /\ checkString(TheFD, TheVal.v, [TheRule EXCEPT !.Regex = <<>>], EmptyCache).k = "nil"

----------------------------------------------------------------------------
(* C3: for every integer-kind field and every value in the kind's range,   *)
(* unsigned 64-bit values of 2^63 and above included, validation fails iff *)
(* (int_gt is set and value <= int_gt) or (int_lt is set and value >=      *)
(* int_lt), value being the field's numeric value.                         *)
C3_IntBoundsNumeric ==
    (Done1 /\ TheVal.t \in {"int32", "int64", "uint32", "uint64"}
           /\ TheVal.t = GoIntType(TheFD.type) /\ ~TheRule.nil)
    => (err # NoErr <=>
          \/ Has(TheRule.IntGt) /\ BigLe(TheVal.v, Val(TheRule.IntGt))
          \/ Has(TheRule.IntLt) /\ BigLe(Val(TheRule.IntLt), TheVal.v))

----------------------------------------------------------------------------
\* a floating-point field with a rule, after ValidMsg
FloatCase ==
    /\ Done1 /\ TheFD.type \in {"FLOAT", "DOUBLE"}
    /\ TheVal.t = (IF TheFD.type = "FLOAT" THEN "float32" ELSE "float64")
    /\ ~TheRule.nil

Eps == IF Has(TheRule.FloatEpsilon) THEN Val(TheRule.FloatEpsilon) ELSE Fin(0)

\* the condition of the claim, with the comparisons of float64
FloatFails(v, e) ==
    \/ Has(TheRule.FloatGt) /\ FLe(FAdd(v, e), Val(TheRule.FloatGt))
    \/ Has(TheRule.FloatLt) /\ FGe(FSub(v, e), Val(TheRule.FloatLt))
    \/ Has(TheRule.FloatGte) /\ FLt(FAdd(v, e), Val(TheRule.FloatGte))
    \/ Has(TheRule.FloatLte) /\ FGt(FSub(v, e), Val(TheRule.FloatLte))

(* C4 as stated: for every floating-point field with value v and epsilon e *)
(* validation fails iff (float_gt set and v+e <= float_gt) or (float_lt    *)
(* set and v-e >= float_lt) or (float_gte set and v+e < float_gte) or      *)
(* (float_lte set and v-e > float_lte).                                    *)
C4_FloatBounds == FloatCase => (err # NoErr <=> FloatFails(TheVal.v, Eps))

(* C4 as amended: the same for every value v that is not NaN; a NaN value  *)
(* fails validation as soon as one of the four bounds is set.  With        *)
(* float_gte = 0.30 and epsilon 0.05 the value 0.27 is accepted and 0.20   *)
(* is rejected.                                                            *)
C4_FloatBoundsNotNaN ==
    FloatCase =>
        IF TheVal.v.k = "nan"
        THEN err # NoErr <=>
               (Has(TheRule.FloatGt) \/ Has(TheRule.FloatLt)
                \/ Has(TheRule.FloatGte) \/ Has(TheRule.FloatLte))
        ELSE err # NoErr <=> FloatFails(TheVal.v, Eps)

\* float_gte = 0.30 alone with epsilon 0.05: 0.27 has been accepted
C4_Witness ==
    /\ FloatCase /\ err = NoErr /\ TheVal.v = Fin(27)
    /\ TheRule = [EmptyRule EXCEPT !.FloatGte = <<Fin(30)>>, !.FloatEpsilon = <<Fin(5)>>]

----------------------------------------------------------------------------
(* The order of the checks.                                                *)

Min(S) == CHOOSE x \in S : \A y \in S : x <= y

\* the known fields that violate their rule; a field whose check meets a
\* value of the wrong shape counts as valid
Violating ==
    { k \in DOMAIN Fields :
        ~Fields[k].fd.ext /\ ~Anomalous(Fields[k]) /\ Violations(Fields[k]) # {} }

\* no known field holds a value of the wrong shape
WellShaped == \A k \in DOMAIN Fields : ~Anomalous(Fields[k])

\* a map field of which one entry violates and another is of the wrong
\* shape fails or not with the order in which the entries are visited
Ambiguous == { k \in DOMAIN Fields : Anomalous(Fields[k]) /\ Violations(Fields[k]) # {} }

(* C5: fields are checked in declaration order and the first failure       *)
(* short-circuits: when some field violates, ValidMsg returns the          *)
(* violation of the earliest-declared violating field and evaluates no     *)
(* field declared after it; it returns no error iff no field violates.     *)
C5_FirstViolationReturned ==
    (pc = "done" /\ ~msg.nil /\ Ambiguous = {}) =>
        /\ err = NoErr <=> Violating = {}
        /\ Violating # {} =>
             /\ err \in Violations(Fields[Min(Violating)])
             /\ evaluated \subseteq 1..Min(Violating)

\* C5 does hold of every message in which no field is of the wrong shape
C5_FirstViolationWellShaped == WellShaped => C5_FirstViolationReturned

----------------------------------------------------------------------------
\* the fields the running call has checked so far
Checked == IF pc \in {"loop", "done"} THEN evaluated ELSE {}

\* known field k is a repeated field holding a list
IsList(k) == Fields[k].fd.label = "repeated" /\ Fields[k].value.t = "list"

\* the errors the check of element i of repeated field k reports
ElemErrs(k, i) ==
    { o.e : o \in { o \in validField(Fields[k].fd, Fields[k].value.v[i],
                                     getRule(Fields[k].fd), EmptyCache) :
                    o.k = "err" } }

\* element i of repeated field k is of the wrong shape
ElemAnomalous(k, i) ==
    \E o \in validField(Fields[k].fd, Fields[k].value.v[i],
                        getRule(Fields[k].fd), EmptyCache) : o.k = "panic"

\* the count violation of repeated field k, if any
CountErrs(k) ==
    LET fd == Fields[k].fd
        rule == getRule(fd)
        n == BigOf(Len(Fields[k].value.v))
    IN IF ~rule.nil /\ Has(rule.RepeatedCountMin) /\ BigLt(n, Val(rule.RepeatedCountMin))
       THEN {ValidFail(fd, "RepeatedCountMin", V("int64", Val(rule.RepeatedCountMin)),
                       V("int64", n))}
       ELSE IF ~rule.nil /\ Has(rule.RepeatedCountMax)
               /\ BigLt(Val(rule.RepeatedCountMax), n)
       THEN {ValidFail(fd, "RepeatedCountMax", V("int64", Val(rule.RepeatedCountMax)),
                       V("int64", n))}
       ELSE {}

\* the elements of repeated field k that violate the rule
BadElems(k) == { i \in DOMAIN Fields[k].value.v : ElemErrs(k, i) # {} }

\* field k is the field the call has returned an error on
FailedOn(k) == pc = "done" /\ idx = k /\ err # NoErr

(* C6: a repeated field whose element count is below repeated_count_min or *)
(* above repeated_count_max fails with the aggregate violation naming      *)
(* RepeatedCountMin or RepeatedCountMax and carrying the count, whatever   *)
(* its elements are (no element is checked before); only with the count    *)
(* within bounds are the elements checked, in list order, and the first    *)
(* violating element is reported.  An element of the wrong shape is an     *)
(* internal anomaly, by which the field counts as valid: the first         *)
(* violating element is reported when no element before it is one.         *)
C6_CountThenElements ==
    \A k \in Checked :
        IsList(k) =>
            /\ CountErrs(k) # {} => (FailedOn(k) /\ err \in CountErrs(k))
            /\ (CountErrs(k) = {} /\ BadElems(k) # {}
                /\ \A i \in 1..Min(BadElems(k)) : ~ElemAnomalous(k, i))
               => (FailedOn(k) /\ err \in ElemErrs(k, Min(BadElems(k))))
            /\ (CountErrs(k) = {} /\ BadElems(k) = {}) => ~FailedOn(k)

\* three elements against repeated_count_max = 2, the first of them too
\* long: the count is what is reported
C6_Witness ==
    /\ pc = "done" /\ idx \in DOMAIN Fields /\ IsList(idx)
    /\ BadElems(idx) # {} /\ err.validKey = "RepeatedCountMax"

\* two elements, within the count bounds, the second too long: it is reported
C6_WitnessElement ==
    /\ pc = "done" /\ idx \in DOMAIN Fields /\ IsList(idx)
    /\ CountErrs(idx) = {} /\ BadElems(idx) = {2} /\ err.validKey = "LengthLt"

----------------------------------------------------------------------------
(* C7: validating the same unmodified message twice yields the same        *)
(* result: both calls return no error, or both the identical violation,    *)
(* also for a map field in which two or more entries violate and whatever  *)
(* the pattern cache holds between the calls.                              *)
C7_SameResultTwice ==
    (pc = "done" /\ Len(prev) >= 1) => err = prev[Len(prev)]

----------------------------------------------------------------------------
\* known field k is a map field holding a map
IsMap(k) == Fields[k].fd.label = "map" /\ Fields[k].value.t = "map"

\* some key of map field k violates the rule of the field, checked under the
\* declared kind of the key
KeyViolates(k) ==
    \E n \in DOMAIN Fields[k].value.v :
        \E o \in validField(Val(Fields[k].fd.key), Fields[k].value.v[n].key,
                            getRule(Fields[k].fd), EmptyCache) : o.k = "err"

\* some message-typed value of map field k contains a violation
ItemViolates(k) ==
    /\ Val(Fields[k].fd.val).type = "MESSAGE"
    /\ \E n \in DOMAIN Fields[k].value.v :
         /\ Fields[k].value.v[n].item.t = "msg"
         /\ \E o \in ValidMsg(Fields[k].value.v[n].item.v, EmptyCache) : o.k = "err"

(* C8: the rule of a map field is applied to every key, under the key's   *)
(* declared kind, and no rule is applied to a value: the map field fails   *)
(* iff some key violates the rule or some message-typed value contains a   *)
(* violation; a scalar value never causes a violation and the count bounds *)
(* are not applied to the number of entries.  (A key or value of the wrong *)
(* shape is an internal anomaly, by which the field counts as valid.)      *)
C8_MapKeysOnly ==
    \A k \in Checked :
        (IsMap(k) /\ ~Anomalous(Fields[k])) =>
            (FailedOn(k) <=> (KeyViolates(k) \/ ItemViolates(k)))

\* a map of one entry with a key the rule accepts, under a rule that also
\* sets int_gt = 5 and repeated_count_min = 3: the value 1 and the single
\* entry are accepted
C8_Witness ==
    /\ pc = "done" /\ err = NoErr /\ Len(Fields) = 1 /\ IsMap(1)
    /\ TheFD.name = "attrs" /\ Len(TheVal.v) = 1
    /\ TheVal.v[1].item = I32(1) /\ TheVal.v[1].key = Str(<<"a", "a">>)

----------------------------------------------------------------------------
\* known field k is a singular message field holding a message
IsMessage(k) ==
    /\ Fields[k].fd.label = "single" /\ Fields[k].fd.type = "MESSAGE"
    /\ Fields[k].value.t = "msg"

\* the violations of the fields of message m and of the messages nested in
\* it, each as the field's own check reports it
RECURSIVE DeepViolations(_)
DeepViolations(m) ==
    IF m.nil THEN {}
    ELSE UNION { IF m.fields[i].fd.label = "single" /\ m.fields[i].fd.type = "MESSAGE"
                    /\ m.fields[i].value.t = "msg"
                 THEN DeepViolations(m.fields[i].value.v)
                 ELSE Violations(m.fields[i])
                 : i \in DOMAIN m.fields }

\* the descriptors of the message fields on the way from message m down
RECURSIVE Wrappers(_)
Wrappers(m) ==
    IF m.nil THEN {}
    ELSE UNION { IF m.fields[i].fd.type = "MESSAGE" /\ m.fields[i].value.t = "msg"
                    /\ m.fields[i].fd.label = "single"
                 THEN {[name |-> m.fields[i].fd.name, type |-> "MESSAGE"]}
                      \cup Wrappers(m.fields[i].value.v)
                 ELSE {}
                 : i \in DOMAIN m.fields }

(* C9: for a message-kind field validation recurses into the nested        *)
(* message and the rule of the wrapper field is never applied to it: the   *)
(* field fails only with a violation found in the nested subtree, returned *)
(* unchanged: the error's field is the nested subfield that violated, not  *)
(* a wrapper, with that subfield's constraint name, threshold and actual   *)
(* value; a nested message without violation passes whatever the rule of   *)
(* the wrapper says.                                                       *)
C9_NestedViolationUnchanged ==
    \A k \in Checked :
        IsMessage(k) =>
            /\ FailedOn(k) =>
                 /\ err \in DeepViolations(Fields[k].value.v)
                 /\ err.field \notin Wrappers(msg)
            /\ DeepViolations(Fields[k].value.v) = {} => ~FailedOn(k)
            /\ (\E o \in ValidMsg(Fields[k].value.v, EmptyCache) : o.k = "err")
               => FailedOn(k)

\* the violation of y, two messages down from the field outer, is returned
C9_Witness ==
    /\ pc = "done" /\ idx \in DOMAIN Fields /\ IsMessage(idx)
    /\ Fields[idx].fd.name = "outer"
    /\ err.field.name = "y" /\ err.validKey = "StringNotEmpty"
----------------------------------------------------------------------------
(* C10: the pattern cache is safe under any interleaving of concurrent Get *)
(* and reset calls: no interleaving reaches a crashed or corrupted cache,  *)
(* reset overwriting the map in the middle of a Get included; every Get of *)
(* a pattern that compiles returns a compiled form of exactly that         *)
(* pattern; the only effect of a race is a pattern compiled more than once.*)
C10_CacheRaceSafe ==
    /\ crashed = ""
    /\ \A p \in DOMAIN cache.m : cache.m[p] = Compile(p)
    /\ tpc # <<>> =>
         \A t \in Threads :
            (tret[t] # <<>> /\ tret[t][1].ok) => tret[t][1].exp = Compile(tret[t][1].expr)
----------------------------------------------------------------------------
(* The cache under a single caller.                                        *)

\* the calls before call i that are a successful Get of the same pattern
\* with no reset between them and call i
HitsBefore(i) ==
    { j \in 1..(i - 1) :
        /\ hist[j].op = "Get" /\ hist[j].expr = hist[i].expr /\ hist[j].ok
        /\ \A k \in (j + 1)..(i - 1) : hist[k].op # "reset" }

(* C11: the cache memoizes by exact pattern string: in a sequential        *)
(* sequence of Get and reset calls a Get(p) compiles p iff no Get(p) has   *)
(* succeeded since the last reset (or since start); otherwise it returns   *)
(* the compiled form the earlier Get returned, without compiling; after    *)
(* reset the cache holds no entries.                                       *)
C11_Memoizes ==
    /\ \A i \in DOMAIN hist : hist[i].op = "Get" =>
          /\ hist[i].compiled <=> HitsBefore(i) = {}
          /\ \A j \in HitsBefore(i) : hist[i].ok /\ hist[i].exp = hist[j].exp
          /\ hist[i].ok => hist[i].exp = Compile(hist[i].expr)
    /\ (hist # <<>> /\ hist[Len(hist)].op = "reset") => cache.m = EmptyMap
    /\ \A p \in DOMAIN cache.m : cache.m[p] = Compile(p)

\* Get(a) compiles, Get(a) again is served from the cache, reset, and
\* Get(a) compiles again
C11_Witness ==
    /\ Len(hist) = 4
    /\ hist[1].op = "Get" /\ hist[1].expr = <<"a">> /\ hist[1].compiled
    /\ hist[2].op = "Get" /\ hist[2].expr = <<"a">> /\ ~hist[2].compiled
    /\ hist[2].exp = hist[1].exp
    /\ hist[3].op = "reset"
    /\ hist[4].op = "Get" /\ hist[4].expr = <<"a">> /\ hist[4].compiled

----------------------------------------------------------------------------
(* A pattern that does not compile.                                        *)

\* known field k is a string field holding a string, with a rule whose
\* regex does not compile
BadPattern(k) ==
    LET f == Fields[k]
    IN /\ f.fd.type = "STRING" /\ f.fd.label = "single"
       /\ ~f.fd.ext /\ ~f.readErr /\ f.value.t = "string"
       /\ ~getRule(f.fd).nil /\ Has(getRule(f.fd).Regex)
       /\ CompileFails(Val(getRule(f.fd).Regex))

\* the constraints among string_not_empty, length_gt, length_lt and
\* length_eq that the value of string field f violates
NonRegexViolated(f) ==
    LET rule == getRule(f.fd)
        n == BigOf(Len(f.value.v))
    IN { key \in {"StringNotEmpty", "LengthGt", "LengthLt", "LengthEq"} :
           \/ key = "StringNotEmpty" /\ Has(rule.StringNotEmpty)
              /\ Val(rule.StringNotEmpty) /\ Len(f.value.v) = 0
           \/ key = "LengthGt" /\ Has(rule.LengthGt) /\ BigLe(n, Val(rule.LengthGt))
           \/ key = "LengthLt" /\ Has(rule.LengthLt) /\ BigLe(Val(rule.LengthLt), n)
           \/ key = "LengthEq" /\ Has(rule.LengthEq) /\ n # Val(rule.LengthEq) }

\* msg with the regex unset on the fields whose pattern does not compile
RegexUnset ==
    [msg EXCEPT !.fields =
        [k \in DOMAIN Fields |->
            IF BadPattern(k) THEN [Fields[k] EXCEPT !.fd.rule.Regex = <<>>]
            ELSE Fields[k]]]

(* C12: a pattern that fails to compile is not a validation failure: a     *)
(* string field whose rule carries a non-compiling regex is validated as   *)
(* if the regex were unset: it fails iff it violates string_not_empty,     *)
(* length_gt, length_lt or length_eq, the violation names one of these,    *)
(* and when it passes the validation goes on with the remaining fields;    *)
(* ValidMsg returns what it returns on the message with the regex unset.   *)
C12_BadPatternIgnored ==
    (pc = "done" /\ ~msg.nil) =>
        /\ err \in { o.e : o \in ValidMsg(RegexUnset, EmptyCache) }
        /\ \A k \in Checked : BadPattern(k) =>
              /\ FailedOn(k) <=> NonRegexViolated(Fields[k]) # {}
              /\ FailedOn(k) =>
                    /\ err.validKey \in NonRegexViolated(Fields[k])
                    /\ err.field.name = Fields[k].fd.name
              /\ (~FailedOn(k) /\ k < Len(Fields)) => idx > k
              /\ Val(getRule(Fields[k].fd).Regex) \notin DOMAIN cache.m

\* code has a pattern that does not compile and a value of the required
\* length; the field after it, name, is empty and its violation is returned
C12_Witness ==
    /\ pc = "done" /\ ~msg.nil /\ Len(Fields) = 2
    /\ BadPattern(1) /\ NonRegexViolated(Fields[1]) = {}
    /\ Fields[2].fd.name = "name" /\ Fields[2].value.v = <<>>
    /\ evaluated = {1, 2}
    /\ err.validKey = "StringNotEmpty" /\ err.field.name = "name"

\* the non-compiling pattern does not hide a length violation
C12_WitnessLength ==
    /\ pc = "done" /\ ~msg.nil /\ Len(Fields) >= 1
    /\ BadPattern(1) /\ FailedOn(1)
    /\ err.validKey = "LengthEq"

----------------------------------------------------------------------------
(* What a violation carries.                                               *)

\* the configured value of the constraint named key in rule (<<>> when the
\* constraint is not set)
Threshold(rule, key) ==
    CASE key = "Regex" -> rule.Regex
      [] key = "IntGt" -> rule.IntGt
      [] key = "IntLt" -> rule.IntLt
      [] key = "FloatGt" -> rule.FloatGt
      [] key = "FloatLt" -> rule.FloatLt
      [] key = "FloatGte" -> rule.FloatGte
      [] key = "FloatLte" -> rule.FloatLte
      [] key = "StringNotEmpty" -> rule.StringNotEmpty
      [] key = "RepeatedCountMin" -> rule.RepeatedCountMin
      [] key = "RepeatedCountMax" -> rule.RepeatedCountMax
      [] key = "LengthGt" -> rule.LengthGt
      [] key = "LengthLt" -> rule.LengthLt
      [] key = "LengthEq" -> rule.LengthEq
      [] key = "IsInEnum" -> rule.IsInEnum
      [] OTHER -> <<>>

\* what was observed on field f for the constraint named key: the length
\* for a length constraint, the element count for a count constraint, the
\* value of the field otherwise
Observed(f, key) ==
    IF key \in {"LengthGt", "LengthLt", "LengthEq",
                "RepeatedCountMin", "RepeatedCountMax"}
    THEN BigOf(Len(f.value.v))
    ELSE f.value.v

\* ValidMsg returned a violation found on known field k, a scalar field or
\* a repeated field whose count is out of bounds, holding a value of the
\* declared shape
ScalarFailure(k) ==
    /\ FailedOn(k) /\ ~Anomalous(Fields[k])
    /\ Fields[k].fd.type # "MESSAGE"
    /\ \/ Fields[k].fd.label = "single"
       \/ /\ IsList(k)
          /\ err.validKey \in {"RepeatedCountMin", "RepeatedCountMax"}

\* the violation ValidMsg returned on field k names the field, a constraint
\* set in its rule, and the configured value of that constraint
NamesConstraint(k) ==
    LET f == Fields[k]
    IN /\ err.field = [name |-> f.fd.name, type |-> f.fd.type]
       /\ Has(Threshold(getRule(f.fd), err.validKey))
       /\ err.validValue.v = Val(Threshold(getRule(f.fd), err.validKey))

\* field k holds an unsigned 64-bit value of 2^63 or above, which the
\* int64 conversion of validField turns into a negative number
Wraps(k) == Fields[k].value.t = "uint64" /\ BigLe(Pow63, Fields[k].value.v)

\* an enum field with a rule, holding an enum number
EnumCase(k) ==
    /\ Fields[k].fd.type = "ENUM" /\ Fields[k].fd.label = "single"
    /\ Fields[k].value.t = "int32" /\ ~getRule(Fields[k].fd).nil

(* C13: every violation returned by ValidMsg carries the offending field,  *)
(* the name of the violated constraint, its configured threshold and the   *)
(* actual value observed (the value of the field, or its length or element *)
(* count); for is_in_enum the violation is raised iff is_in_enum is true   *)
(* and the value is none of the declared numbers, and the actual value     *)
(* reported is the observed enum number.  (Stated for values the int64     *)
(* conversion keeps.)                                                      *)
C13_ViolationCarriesActual ==
    \A k \in Checked :
        /\ ScalarFailure(k) =>
              /\ NamesConstraint(k)
              /\ ~Wraps(k) =>
                    /\ err.fieldValue.t # "bool"
                    /\ err.fieldValue.v = Observed(Fields[k], err.validKey)
        /\ (pc = "done" /\ idx = k /\ EnumCase(k)) =>
              (err # NoErr <=>
                 /\ Has(getRule(Fields[k].fd).IsInEnum)
                 /\ Val(getRule(Fields[k].fd).IsInEnum)
                 /\ Fields[k].value.v \notin Fields[k].fd.enum)

\* the same with the actual value left open for is_in_enum
C13_ViolationCarriesActualButEnum ==
    \A k \in Checked :
        /\ ScalarFailure(k) =>
              /\ NamesConstraint(k)
              /\ (err.validKey # "IsInEnum" /\ ~Wraps(k))
                 => err.fieldValue.v = Observed(Fields[k], err.validKey)
        /\ (pc = "done" /\ idx = k /\ EnumCase(k)) =>
              (err # NoErr <=>
                 /\ Has(getRule(Fields[k].fd).IsInEnum)
                 /\ Val(getRule(Fields[k].fd).IsInEnum)
                 /\ Fields[k].value.v \notin Fields[k].fd.enum)

----------------------------------------------------------------------------
(* A value of the wrong shape inside a nested message.                     *)

\* v is a message in which Valid panics: it meets a value whose shape
\* disagrees with the declared kind before any violation
NestedAnomaly(v) ==
    v.t = "msg" /\ \A o \in Valid(v.v, EmptyCache) : o.k = "panic"

\* the check of field f on its own passes / reports a violation
Passes(f) == \A o \in ValidOne(f, EmptyCache) : o.k = "nil"
Fails(f)  == \A o \in ValidOne(f, EmptyCache) : o.k = "err"

\* known field k is a repeated message field holding a list
IsMessageList(k) == IsList(k) /\ Fields[k].fd.type = "MESSAGE"

(* C14: anomaly recovery is scoped per message: when a value inside a      *)
(* nested message has the wrong shape, the nested message counts as valid  *)
(* (its remaining fields are skipped) and the enclosing message goes on:   *)
(* ValidMsg still returns the violation of the first violating field       *)
(* declared after the message field, and of the first violating element    *)
(* after that one in a repeated message field; the same holds one level   *)
(* down, between a nested message and the message nested in it.            *)
C14_RecoveryPerMessage ==
    \A k \in Checked :
        /\ (IsMessage(k) /\ NestedAnomaly(Fields[k].value)) =>
              /\ ~FailedOn(k)
              /\ (pc = "done" /\ idx = k) => (~recovered /\ k = Len(Fields))
              /\ \A j \in (k + 1)..Len(Fields) :
                    (/\ Fails(Fields[j])
                     /\ \A i \in (k + 1)..(j - 1) : Passes(Fields[i])
                     /\ pc = "done")
                    => (FailedOn(j) /\ err \in Violations(Fields[j]))
        /\ (IsMessage(k) /\ ~Fields[k].value.v.nil) =>
              LET inner == Fields[k].value.v.fields
              IN \A i \in DOMAIN inner : \A j \in (i + 1)..Len(inner) :
                    (/\ inner[i].fd.type = "MESSAGE" /\ inner[i].fd.label = "single"
                     /\ NestedAnomaly(inner[i].value)
                     /\ \A h \in 1..(j - 1) : Passes(inner[h])
                     /\ Fails(inner[j])
                     /\ pc = "done")
                    => (FailedOn(k) /\ err \in Violations(inner[j]))
        /\ IsMessageList(k) =>
              \A i \in DOMAIN Fields[k].value.v :
                \A j \in (i + 1)..Len(Fields[k].value.v) :
                    (/\ NestedAnomaly(Fields[k].value.v[i])
                     /\ CountErrs(k) = {}
                     /\ \A h \in 1..(j - 1) :
                            ElemErrs(k, h) = {} /\ ~ElemAnomalous(k, h)
                     /\ ElemErrs(k, j) # {}
                     /\ pc = "done")
                    => (FailedOn(k) /\ err \in ElemErrs(k, j))

\* inner holds a string in its int32 field x and an empty y that violates;
\* the field after inner violates and its violation is returned
C14_Witness ==
    /\ pc = "done" /\ Len(Fields) = 2 /\ evaluated = {1, 2}
    /\ IsMessage(1) /\ NestedAnomaly(Fields[1].value)
    /\ Violations(Fields[1].value.v.fields[2]) # {}
    /\ Fails(Fields[2]) /\ FailedOn(2) /\ ~recovered

\* two levels down: inner, inside outer, holds the value of the wrong
\* shape; age, declared after inner in outer, violates and is returned
C14_WitnessDeep ==
    /\ pc = "done" /\ idx \in DOMAIN Fields /\ IsMessage(idx)
    /\ Fields[idx].fd.name = "outer"
    /\ NestedAnomaly(Fields[idx].value.v.fields[1].value)
    /\ FailedOn(idx) /\ err.field.name = "age"

\* the first message of a list holds a value of the wrong shape, the
\* violation of the second one is returned
C14_WitnessList ==
    /\ pc = "done" /\ idx \in DOMAIN Fields /\ IsMessageList(idx)
    /\ Len(Fields[idx].value.v) = 2
    /\ NestedAnomaly(Fields[idx].value.v[1])
    /\ FailedOn(idx) /\ err \in ElemErrs(idx, 2) /\ err.field.name = "x"

====
